---- MODULE Spec2Model ----
(***************************************************************************)
(* A model of igptai-node: the retrying request executor                   *)
(* (src/src/HttpClient.js), the incremental SSE decoder and the IGPT       *)
(* client that composes them (src/src/StreamParser.js).                    *)
(*                                                                         *)
(* Three specifications share the variables:                               *)
(*   Spec        one call of HttpClient.request by a caller that passes    *)
(*               its own AbortSignal in the options;                       *)
(*   SpecParser  one StreamParser constructed on an open response body;    *)
(*   SpecClient  one service method call of an IGPT client (stream or      *)
(*               non-stream), through _execute, HttpClient.request and,    *)
(*               for a stream call, the StreamParser it returns.           *)
(***************************************************************************)
EXTENDS Integers, Sequences, FiniteSets, TLC

VARIABLES
    \* ---- HttpClient (HttpClient.js:5-15) and one call of request()
    retries,        \* this._retries
    backoffBase,    \* this._backoffBase
    backoffFactor,  \* this._backoffFactor
    rpc,            \* position of request(): "none" | "idle" | "fetching" | "aborting" | "backoff" | "returned"
    attempt,        \* the loop variable of HttpClient.js:21
    timers,         \* attempt indices whose deadline timer (line 25) is armed
    aborted,        \* controller.signal.aborted of the current attempt's controller
    signal,         \* which signal the in-flight fetch was given: "controller" | "caller" | "none"
    callerAbort,    \* the caller's own AbortSignal, and what had happened when it fired
    fetchCount,     \* number of calls of fetch() so far
    log,            \* how each concluded attempt ended, in order
    waits,          \* the delays of the backoff waits started so far (line 69), in order
    result,         \* what request() returned
    \* ---- StreamParser (StreamParser.js:5-59)
    ppc,            \* position of the generator: "none" | "fresh" | "reading" | "yielded" | "errYielded" | "done"
    source,         \* every byte the response body will deliver
    pos,            \* number of bytes already read from the source
    srcFailed,      \* the source has raised on a read
    buffer,         \* this._buffer
    decPending,     \* bytes the TextDecoder holds back (stream: true)
    pending,        \* lines of the current chunk the for loop has not reached yet
    out,            \* the values the iteration has yielded so far
    ending,         \* how the iteration ended: "no" | "eof" | "error" | "abandoned"
    releases,       \* number of calls of this._reader.releaseLock()
    locked,         \* this._reader still holds the lock on the body
    heldAtStart,    \* the reader heldAtStart the lock when the current iteration started
    failedHere,     \* the source raised on a read of the current iteration
    \* ---- IGPT client (StreamParser.js:163-182) and one service method call (204-238)
    options,        \* the options the IGPT constructor was given
    cpc,            \* "direct" | "none" | "idle" | "executing" | "parsing" | "returned" | "rejected"
    stream,         \* body.stream === true
    cres,           \* what the service method returned (or rejected with)
    jsonBody        \* what res.json() settled with: "none" until it has

httpVars   == <<retries, backoffBase, backoffFactor, rpc, attempt, timers, aborted,
                signal, callerAbort, fetchCount, log, waits, result>>
parserVars == <<ppc, source, pos, srcFailed, buffer, decPending, pending, out, ending, releases,
                locked, heldAtStart, failedHere>>
clientVars == <<options, cpc, stream, cres, jsonBody>>
vars       == <<httpVars, parserVars, clientVars>>

(***************************************************************************)
(* Bounds of the model.                                                    *)
(***************************************************************************)
MaxRetries == 2
MaxBackoffBase == 2
MaxBackoffFactor == 2
MaxPieces == 2
MaxIterations == 2

(***************************************************************************)
(* HttpClient.request                                                      *)
(***************************************************************************)

\* The status codes the transport answers with in the model.
Statuses == {200, 204, 404, 429, 500, 599}

\* The names of the errors fetch() rejects with for a reason other than the
\* attempt's own controller: a transport failure (TypeError) or an abort the
\* platform raised itself (AbortError, CASE A of the catch block).
ErrNames == {"TypeError", "AbortError"}

\* A variant of IsRetryableStatus that retries every status from 400 up.
IsRetryableStatus_Any4xx(status) == status >= 400 /\ status < 600

\* HttpClient.js:33
IsRetryableStatus(status) == (status >= 500 /\ status < 600) \/ status = 429

\* A variant of IsLastAttempt that stops one attempt early.
IsLastAttempt_OneEarly(a) == a >= retries - 1

\* A variant of IsLastAttempt that never holds: no attempt returns as the last.
IsLastAttempt_Never(a) == FALSE

\* HttpClient.js:36, 53
IsLastAttempt(a) == a = retries

RECURSIVE Pow(_, _)
Pow(b, e) == IF e = 0 THEN 1 ELSE b * Pow(b, e - 1)

\* A variant of Delay whose exponent counts the attempt that follows.
Delay_NextAttempt(a) == backoffBase * Pow(backoffFactor, a + 1)

\* HttpClient.js:68
Delay(a) == backoffBase * Pow(backoffFactor, a)

\* HttpClient.js:28-31: the caller's options are spread first and `signal` is
\* set after them, so the caller's own signal is replaced by the controller's.
FetchInit(fetchOptions) == [fetchOptions EXCEPT !.signal = "controller"]

\* The options a caller that wants to be able to cancel passes to request().
CallerOptions == [signal |-> "caller"]

\* StreamParser.js:259-270: the options _execute passes to request() hold no signal.
ExecuteOptions == [signal |-> "none"]

\* The options of the call in progress.
CallOptions == IF cpc = "direct" THEN CallerOptions ELSE ExecuteOptions

Response(status, a) == [kind |-> "response", status |-> status, attempt |-> a, error |-> "none"]
ErrorValue(e) == [kind |-> "error", status |-> 0, attempt |-> 0, error |-> e]
Pending == [kind |-> "pending", status |-> 0, attempt |-> 0, error |-> "none"]

Undefined == [kind |-> "undefined", status |-> 0, attempt |-> 0, error |-> "none"]

NoCallerAbort == [fired |-> FALSE, fetches |-> 0, waits |-> 0, at |-> "none"]

\* HttpClient.js:22-31: one iteration of the loop up to the await of fetch():
\* a new controller, the deadline timer armed, the request issued.
StartAttempt(a) ==
    /\ attempt' = a
    /\ aborted' = FALSE
    /\ timers' = timers \cup {a}
    /\ signal' = FetchInit(CallOptions).signal
    /\ fetchCount' = fetchCount + 1
    /\ rpc' = "fetching"
    /\ UNCHANGED result

\* HttpClient.js:21, 71: the loop condition; when it fails the function ends
\* without a return statement and the call yields undefined.
EnterLoop(a) ==
    IF a <= retries
      THEN StartAttempt(a)
      ELSE /\ attempt' = a
           /\ result' = Undefined
           /\ rpc' = "returned"
           /\ UNCHANGED <<aborted, timers, signal, fetchCount>>

\* A variant of FallThrough without the clearTimeout of the finally block.
FallThrough_KeepsTimer ==
    /\ timers' = timers
    /\ waits' = Append(waits, Delay(attempt))
    /\ signal' = "none"
    /\ rpc' = "backoff"
    /\ UNCHANGED <<result, attempt, fetchCount>>

\* A variant of FallThrough without the wait of lines 68-69: the next attempt
\* is started in the same step.
FallThrough_NoWait ==
    /\ timers' = (timers \ {attempt}) \cup {attempt + 1}
    /\ attempt' = attempt + 1
    /\ signal' = FetchInit(CallOptions).signal
    /\ fetchCount' = fetchCount + 1
    /\ rpc' = "fetching"
    /\ UNCHANGED <<result, waits>>

\* HttpClient.js:63-69: the finally block, then the backoff wait is started.
FallThrough ==
    /\ timers' = timers \ {attempt}
    /\ waits' = Append(waits, Delay(attempt))
    /\ signal' = "none"
    /\ rpc' = "backoff"
    /\ UNCHANGED <<result, attempt, fetchCount>>

\* A variant of Return that goes through the wait of lines 67-69 before the
\* value is handed back.
Return_AfterWait(v) ==
    /\ timers' = timers \ {attempt}
    /\ result' = v
    /\ signal' = "none"
    /\ rpc' = "returned"
    /\ waits' = Append(waits, Delay(attempt))
    /\ UNCHANGED <<attempt, fetchCount>>

\* A return statement inside the try or catch block, then the finally block.
Return(v) ==
    /\ timers' = timers \ {attempt}
    /\ result' = v
    /\ signal' = "none"
    /\ rpc' = "returned"
    /\ UNCHANGED <<waits, attempt, fetchCount>>

\* HttpClient.js:17-31: the call of request() by a caller, up to the first await.
request ==
    /\ cpc = "direct"
    /\ rpc = "idle"
    /\ EnterLoop(0)
    /\ UNCHANGED <<retries, backoffBase, backoffFactor, callerAbort, log, waits>>
    /\ UNCHANGED <<parserVars, clientVars>>

\* HttpClient.js:28-38, 63-69: fetch() resolves with a response.
FetchResolves(status) ==
    /\ rpc = "fetching"
    /\ log' = Append(log, [kind |-> "status", status |-> status])
    /\ IF ~IsRetryableStatus(status) \/ IsLastAttempt(attempt)
         THEN Return(Response(status, attempt))
         ELSE FallThrough
    /\ UNCHANGED <<retries, backoffBase, backoffFactor, aborted, callerAbort>>
    /\ UNCHANGED <<parserVars, clientVars>>

\* HttpClient.js:25: the deadline timer fires and aborts the attempt's controller;
\* the fetch it was given to rejects with an AbortError.
TimerFires ==
    /\ rpc = "fetching"
    /\ attempt \in timers
    /\ timers' = timers \ {attempt}
    /\ aborted' = TRUE
    /\ rpc' = IF signal = "controller" THEN "aborting" ELSE rpc
    /\ UNCHANGED <<retries, backoffBase, backoffFactor, attempt, signal, callerAbort,
                   fetchCount, log, waits, result>>
    /\ UNCHANGED <<parserVars, clientVars>>

\* A variant of Catch that reports a fired deadline at once, whatever the attempt.
Catch_TimeoutNotRetried(errName) ==
    LET isAbortError == errName = "AbortError"
        isOurTimeout == aborted
    IN  IF isAbortError /\ ~isOurTimeout
          THEN Return(ErrorValue("request_aborted"))
          ELSE IF isAbortError /\ isOurTimeout
                 THEN Return(ErrorValue("timeout"))
                 ELSE IF IsLastAttempt(attempt)
                        THEN Return(ErrorValue("network_error"))
                        ELSE FallThrough

\* A variant of Catch that tests only for exhaustion and never names the failure.
Catch_AlwaysTimeout(errName) ==
    LET isAbortError == errName = "AbortError"
        isOurTimeout == aborted
    IN  IF isAbortError /\ ~isOurTimeout
          THEN Return(ErrorValue("request_aborted"))
          ELSE IF IsLastAttempt(attempt)
                 THEN Return(ErrorValue("timeout"))
                 ELSE FallThrough

\* HttpClient.js:40-62: the catch block, for an error named errName.
Catch(errName) ==
    LET isAbortError == errName = "AbortError"
        isOurTimeout == aborted
    IN  IF isAbortError /\ ~isOurTimeout
          THEN Return(ErrorValue("request_aborted"))
          ELSE IF IsLastAttempt(attempt)
                 THEN IF isAbortError /\ isOurTimeout
                        THEN Return(ErrorValue("timeout"))
                        ELSE Return(ErrorValue("network_error"))
                 ELSE FallThrough

\* How the attempt ended, for the log.
Outcome(errName) ==
    IF errName = "AbortError"
      THEN [kind |-> IF aborted THEN "timeout" ELSE "abort", status |-> 0]
      ELSE [kind |-> "network", status |-> 0]

\* fetch() rejects: with the AbortError of the fired deadline or of the caller's
\* signal (rpc = "aborting"), or with an error of the transport's own.
FetchRejects(errName) ==
    /\ \/ rpc = "fetching"
       \/ rpc = "aborting" /\ errName = "AbortError"
    /\ log' = Append(log, Outcome(errName))
    /\ Catch(errName)
    /\ UNCHANGED <<retries, backoffBase, backoffFactor, aborted, callerAbort>>
    /\ UNCHANGED <<parserVars, clientVars>>

\* HttpClient.js:69-70, 21-31: the backoff timer fires, attempt++ and, the loop
\* condition holding, the next attempt is started.
BackoffElapsed ==
    /\ rpc = "backoff"
    /\ EnterLoop(attempt + 1)
    /\ UNCHANGED <<retries, backoffBase, backoffFactor, callerAbort, log, waits>>
    /\ UNCHANGED <<parserVars, clientVars>>

\* The caller aborts its own signal while the call is in progress.  A fetch
\* that was given the caller's signal rejects with an AbortError.
CallerAbort ==
    /\ cpc = "direct"
    /\ rpc \in {"fetching", "backoff"}
    /\ ~callerAbort.fired
    /\ callerAbort' = [fired |-> TRUE, fetches |-> fetchCount, waits |-> Len(waits), at |-> rpc]
    /\ rpc' = IF rpc = "fetching" /\ signal = "caller" THEN "aborting" ELSE rpc
    /\ UNCHANGED <<retries, backoffBase, backoffFactor, attempt, timers, aborted, signal,
                   fetchCount, log, waits, result>>
    /\ UNCHANGED <<parserVars, clientVars>>

HttpSteps ==
    \/ \E status \in Statuses : FetchResolves(status)
    \/ TimerFires
    \/ \E errName \in ErrNames : FetchRejects(errName)
    \/ BackoffElapsed

\* An option of the IGPT constructor: given with a value, or left out.
Absent == [given |-> FALSE, value |-> 0]
Given(v) == [given |-> TRUE, value |-> v]
NoOptions == [retries |-> Absent, backoffBase |-> Absent, backoffFactor |-> Absent]

NoParser ==
    /\ ppc = "none"
    /\ source = <<>>
    /\ pos = 0
    /\ srcFailed = FALSE
    /\ buffer = <<>>
    /\ decPending = <<>>
    /\ pending = <<>>
    /\ out = <<>>
    /\ ending = "no"
    /\ releases = 0
    /\ locked = FALSE
    /\ heldAtStart = FALSE
    /\ failedHere = FALSE

NoCall ==
    /\ rpc = "idle"
    /\ attempt = 0
    /\ timers = {}
    /\ aborted = FALSE
    /\ signal = "none"
    /\ callerAbort = NoCallerAbort
    /\ fetchCount = 0
    /\ log = <<>>
    /\ waits = <<>>
    /\ result = Pending

\* HttpClient.js:10-15: new HttpClient(options), before request() is called.
Init ==
    /\ retries \in 0..MaxRetries
    /\ backoffBase \in 1..MaxBackoffBase
    /\ backoffFactor \in 1..MaxBackoffFactor
    /\ NoCall
    /\ NoParser
    /\ options = NoOptions
    /\ cpc = "direct"
    /\ stream = FALSE
    /\ cres = Pending
    /\ jsonBody = "none"

Next ==
    \/ request
    \/ CallerAbort
    \/ HttpSteps

Spec == Init /\ [][Next]_vars

\* Spec with the scheduling of the event loop: an attempt in flight is
\* concluded (the transport responds or fails, or the armed deadline of line 25
\* fires and the fetch rejects), and the timer of a backoff wait (line 69) fires.
SpecLive == Spec /\ WF_vars(HttpSteps)

(***************************************************************************)
(* StreamParser                                                            *)
(*                                                                         *)
(* Bytes and characters are strings.  The source delivers the bytes of     *)
(* ASCII characters, written as the character, and the two bytes "C3" "A9" *)
(* of the UTF-8 encoding of U+00E9.                                        *)
(***************************************************************************)

LF == "\n"
Quote == "\""
Marker == <<"d", "a", "t", "a", ":">>
Whitespace == {" ", "\t", "\r", LF}
Digits == {"0", "1", "2"}

\* The lines the model's response bodies are made of.
Pieces ==
    { Marker \o <<"1", LF>>,
      Marker \o <<" ", "1", "2", LF>>,
      Marker \o <<"x", LF>>,
      Marker \o <<" ", LF>>,
      <<LF>>,
      <<":", "1", LF>>,
      <<" ">> \o Marker \o <<Quote, "C3", "A9", Quote, LF>>,
      Marker \o <<"2">> }

RECURSIVE StreamsOf(_)
StreamsOf(n) ==
    IF n = 0 THEN {<<>>}
    ELSE LET S == StreamsOf(n - 1) IN S \cup {s \o p : s \in S, p \in Pieces}

\* The byte sequences a response body delivers in SpecParser.
Streams == StreamsOf(MaxPieces)

\* StreamParser.js:35: decoder.decode(value, { stream: true }) on the bytes bs
\* (the bytes held back by the previous call first): the text decoded, and
\* the bytes of an incomplete character held back for the next call.
RECURSIVE DecodeRec(_, _, _)
DecodeRec(bs, i, acc) ==
    IF i > Len(bs) THEN [text |-> acc, held |-> <<>>]
    ELSE IF bs[i] = "C3"
      THEN IF i = Len(bs) THEN [text |-> acc, held |-> <<"C3">>]
           ELSE IF bs[i + 1] = "A9" THEN DecodeRec(bs, i + 2, Append(acc, "U+00E9"))
           ELSE DecodeRec(bs, i + 1, Append(acc, "U+FFFD"))
    ELSE IF bs[i] = "A9" THEN DecodeRec(bs, i + 1, Append(acc, "U+FFFD"))
    ELSE DecodeRec(bs, i + 1, Append(acc, bs[i]))

\* A variant of Decode without { stream: true }: an incomplete character at the
\* end of a chunk is replaced, not held back.
Decode_NoStream(held, chunk) ==
    LET r == DecodeRec(chunk, 1, <<>>)
    IN  [text |-> r.text \o [i \in 1..Len(r.held) |-> "U+FFFD"], held |-> <<>>]

\* StreamParser.js:14, 35
Decode(held, chunk) == DecodeRec(held \o chunk, 1, <<>>)

\* StreamParser.js:37: text.split("\n")
RECURSIVE SplitRec(_, _, _, _)
SplitRec(text, i, cur, acc) ==
    IF i > Len(text) THEN Append(acc, cur)
    ELSE IF text[i] = LF THEN SplitRec(text, i + 1, <<>>, Append(acc, cur))
    ELSE SplitRec(text, i + 1, Append(cur, text[i]), acc)

Split(text) == SplitRec(text, 1, <<>>, <<>>)

\* A variant of Popped that forgets the partial line.
Popped_Forgotten(lines) == <<>>

\* A variant of Popped that takes the first line (shift) for the last (pop).
Popped_First(lines) == lines[1]

\* StreamParser.js:39: lines.pop() || ""
Popped(lines) == lines[Len(lines)]

\* StreamParser.js:37-41: the lines left in the array after lines.pop()
AfterPop(lines) == SubSeq(lines, 1, Len(lines) - 1)

\* StreamParser.js:42, 45: String.prototype.trim
RECURSIVE TrimStart(_)
TrimStart(t) ==
    IF t # <<>> /\ t[1] \in Whitespace THEN TrimStart(Tail(t)) ELSE t

RECURSIVE TrimEnd(_)
TrimEnd(t) ==
    IF t # <<>> /\ t[Len(t)] \in Whitespace THEN TrimEnd(SubSeq(t, 1, Len(t) - 1)) ELSE t

Trim(t) == TrimEnd(TrimStart(t))

\* StreamParser.js:43: line.startsWith("data:")
StartsWith(t, prefix) ==
    Len(t) >= Len(prefix) /\ SubSeq(t, 1, Len(prefix)) = prefix

\* StreamParser.js:45: line.slice(5)
Slice(t, n) == SubSeq(t, n + 1, Len(t))

NoJSON == [json |-> "none", num |-> 0, str |-> <<>>]

DigitValue(c) == CASE c = "0" -> 0 [] c = "1" -> 1 [] c = "2" -> 2 [] OTHER -> 0

RECURSIVE NumberValue(_)
NumberValue(t) ==
    IF t = <<>> THEN 0
    ELSE 10 * NumberValue(SubSeq(t, 1, Len(t) - 1)) + DigitValue(t[Len(t)])

IsNumberText(t) ==
    /\ t # <<>>
    /\ \A i \in 1..Len(t) : t[i] \in Digits
    /\ (Len(t) > 1 => t[1] # "0")

IsStringText(t) ==
    /\ Len(t) >= 2
    /\ t[1] = Quote
    /\ t[Len(t)] = Quote
    /\ \A i \in 2..(Len(t) - 1) : t[i] \notin {Quote, "\\", LF, "\t", "\r"}

\* StreamParser.js:49: JSON.parse(jsonStr), for the JSON texts of the model
\* (numbers and strings without escapes): the value, or ok = FALSE when it throws.
ParseJSON(t) ==
    IF IsNumberText(t)
      THEN [ok |-> TRUE, value |-> [json |-> "number", num |-> NumberValue(t), str |-> <<>>]]
    ELSE IF IsStringText(t)
      THEN [ok |-> TRUE, value |-> [json |-> "string", num |-> 0, str |-> SubSeq(t, 2, Len(t) - 1)]]
    ELSE [ok |-> FALSE, value |-> NoJSON]

Value(v) == [error |-> "none", value |-> v]
NetworkError == [error |-> "network_error", value |-> NoJSON]
MalformedChunk == [error |-> "malformed_stream_chunk", value |-> NoJSON]
Nothing == [yields |-> FALSE, item |-> Value(NoJSON)]

\* A variant of Frame that reports a payload JSON.parse rejects.
Frame_ReportsMalformed(raw) ==
    LET line == Trim(raw)
        jsonStr == Trim(Slice(line, 5))
    IN  IF ~StartsWith(line, Marker) THEN Nothing
        ELSE IF jsonStr = <<>> THEN Nothing
        ELSE IF ParseJSON(jsonStr).ok
          THEN [yields |-> TRUE, item |-> Value(ParseJSON(jsonStr).value)]
          ELSE [yields |-> TRUE, item |-> MalformedChunk]

\* StreamParser.js:42-52: the body of the for loop for one line: whether it
\* yields, and what.
Frame(raw) ==
    LET line == Trim(raw)
        jsonStr == Trim(Slice(line, 5))
    IN  IF ~StartsWith(line, Marker) THEN Nothing
        ELSE IF jsonStr = <<>> THEN Nothing
        ELSE IF ParseJSON(jsonStr).ok
          THEN [yields |-> TRUE, item |-> Value(ParseJSON(jsonStr).value)]
          ELSE Nothing

\* The index of the first line of ls that yields, 0 when none does.
RECURSIVE FirstYield(_, _)
FirstYield(ls, i) ==
    IF i > Len(ls) THEN 0
    ELSE IF Frame(ls[i]).yields THEN i
    ELSE FirstYield(ls, i + 1)

\* StreamParser.js:41-53, 17-24: the for loop runs over the lines ls until a
\* line yields; when none is left the while loop awaits the next read.
RunLines(ls) ==
    LET i == FirstYield(ls, 1)
    IN  IF i = 0
          THEN /\ ppc' = "reading"
               /\ pending' = <<>>
               /\ out' = out
          ELSE /\ ppc' = "yielded"
               /\ pending' = SubSeq(ls, i + 1, Len(ls))
               /\ out' = Append(out, Frame(ls[i]).item)

\* StreamParser.js:55-57: the finally block.
Finally(how) ==
    /\ releases' = releases + 1
    /\ locked' = FALSE
    /\ ending' = how
    /\ ppc' = "done"

\* StreamParser.js:13-24: the consumer starts iterating the instance, for the
\* first time or again: a new generator with a new decoder runs up to the
\* first await of reader.read().  this._reader and this._buffer are the
\* instance's and are kept.
Iterate ==
    /\ ppc \in {"fresh", "done"}
    /\ releases < MaxIterations
    /\ ppc' = "reading"
    /\ decPending' = <<>>
    /\ pending' = <<>>
    /\ out' = <<>>
    /\ ending' = "no"
    /\ heldAtStart' = locked
    /\ failedHere' = FALSE
    /\ UNCHANGED <<source, pos, srcFailed, buffer, releases, locked>>
    /\ UNCHANGED <<httpVars, clientVars>>

\* StreamParser.js:13: the consumer obtains the generator and gives it up
\* (return()) before the first next(): a generator that has not started
\* completes without running its body, the finally block included.
AbandonFresh ==
    /\ ppc = "fresh"
    /\ ppc' = "done"
    /\ ending' = "abandoned"
    /\ UNCHANGED <<source, pos, srcFailed, buffer, decPending, pending, out, releases,
                   locked, heldAtStart, failedHere>>
    /\ UNCHANGED <<httpVars, clientVars>>

\* StreamParser.js:24, 33-53: reader.read() resolves with the next n bytes.
ReadChunk(n) ==
    /\ ppc = "reading"
    /\ locked
    /\ ~srcFailed
    /\ pos + n <= Len(source)
    /\ LET d == Decode(decPending, SubSeq(source, pos + 1, pos + n))
           lines == Split(buffer \o d.text)
       IN  /\ decPending' = d.held
           /\ buffer' = Popped(lines)
           /\ RunLines(AfterPop(lines))
    /\ pos' = pos + n
    /\ UNCHANGED <<source, srcFailed, ending, releases, locked, heldAtStart, failedHere>>
    /\ UNCHANGED <<httpVars, clientVars>>

\* A variant of ReadDone that runs the text left in the buffer through the
\* frame test at end of data, as a last line.
ReadDone_FlushesBuffer ==
    /\ ppc = "reading"
    /\ locked
    /\ ~srcFailed
    /\ pos = Len(source)
    /\ Finally("eof")
    /\ out' = IF Frame(buffer).yields THEN Append(out, Frame(buffer).item) ELSE out
    /\ UNCHANGED <<source, pos, srcFailed, buffer, decPending, pending, heldAtStart, failedHere>>
    /\ UNCHANGED <<httpVars, clientVars>>

\* StreamParser.js:24, 33, 55-57: reader.read() resolves with done.
ReadDone ==
    /\ ppc = "reading"
    /\ locked
    /\ ~srcFailed
    /\ pos = Len(source)
    /\ Finally("eof")
    /\ UNCHANGED <<source, pos, srcFailed, buffer, decPending, pending, out, heldAtStart, failedHere>>
    /\ UNCHANGED <<httpVars, clientVars>>

\* StreamParser.js:24-29: the source raises, reader.read() rejects; the error
\* value is yielded.
ReadFail ==
    /\ ppc = "reading"
    /\ locked
    /\ srcFailed' = TRUE
    /\ failedHere' = TRUE
    /\ out' = Append(out, NetworkError)
    /\ ppc' = "errYielded"
    /\ UNCHANGED <<source, pos, buffer, decPending, pending, ending, releases, locked, heldAtStart>>
    /\ UNCHANGED <<httpVars, clientVars>>

\* StreamParser.js:24-29: read() on a reader that has been released rejects
\* with a TypeError; the catch block yields the error value for it too.
ReadReleased ==
    /\ ppc = "reading"
    /\ ~locked
    /\ out' = Append(out, NetworkError)
    /\ ppc' = "errYielded"
    /\ UNCHANGED <<source, pos, srcFailed, buffer, decPending, pending, ending, releases,
                   locked, heldAtStart, failedHere>>
    /\ UNCHANGED <<httpVars, clientVars>>

\* StreamParser.js:49-53: the consumer asks for the next value after a frame.
Resume ==
    /\ ppc = "yielded"
    /\ RunLines(pending)
    /\ UNCHANGED <<source, pos, srcFailed, buffer, decPending, ending, releases,
                   locked, heldAtStart, failedHere>>
    /\ UNCHANGED <<httpVars, clientVars>>

\* A variant of ResumeAfterError with `continue` in place of `break`.
ResumeAfterError_Continue ==
    /\ ppc = "errYielded"
    /\ ppc' = "reading"
    /\ UNCHANGED <<source, pos, srcFailed, buffer, decPending, pending, out, ending, releases,
                   locked, heldAtStart, failedHere>>
    /\ UNCHANGED <<httpVars, clientVars>>

\* StreamParser.js:30, 55-57: the consumer asks for the next value after the
\* error value: break, then the finally block.
ResumeAfterError ==
    /\ ppc = "errYielded"
    /\ Finally("error")
    /\ UNCHANGED <<source, pos, srcFailed, buffer, decPending, pending, out, heldAtStart, failedHere>>
    /\ UNCHANGED <<httpVars, clientVars>>

\* StreamParser.js:26, 49, 55-57: the consumer leaves its loop at a yielded
\* value (return() on the suspended generator runs the finally block).
Abandon ==
    /\ ppc \in {"yielded", "errYielded"}
    /\ Finally("abandoned")
    /\ UNCHANGED <<source, pos, srcFailed, buffer, decPending, pending, out, heldAtStart, failedHere>>
    /\ UNCHANGED <<httpVars, clientVars>>

ParserSteps ==
    \/ Iterate
    \/ AbandonFresh
    \/ ReadReleased
    \/ \E n \in 1..(Len(source) - pos) : ReadChunk(n)
    \/ ReadDone
    \/ ReadFail
    \/ Resume
    \/ ResumeAfterError
    \/ Abandon

\* StreamParser.js:9-11: new StreamParser(response) on a body that will deliver src.
Constructed(src) ==
    /\ ppc = "fresh"
    /\ source = src
    /\ pos = 0
    /\ srcFailed = FALSE
    /\ buffer = <<>>
    /\ decPending = <<>>
    /\ pending = <<>>
    /\ out = <<>>
    /\ ending = "no"
    /\ releases = 0
    /\ locked = TRUE
    /\ heldAtStart = FALSE
    /\ failedHere = FALSE

\* StreamParser.js:9-11: new StreamParser(response) during a service method call.
Construct(src) ==
    /\ ppc' = "fresh"
    /\ source' = src
    /\ locked' = TRUE
    /\ UNCHANGED <<pos, srcFailed, buffer, decPending, pending, out, ending, releases,
                   heldAtStart, failedHere>>

InitParser ==
    /\ \E src \in Streams : Constructed(src)
    /\ retries = 0
    /\ backoffBase = 0
    /\ backoffFactor = 0
    /\ rpc = "none"
    /\ attempt = 0
    /\ timers = {}
    /\ aborted = FALSE
    /\ signal = "none"
    /\ callerAbort = NoCallerAbort
    /\ fetchCount = 1
    /\ log = <<[kind |-> "status", status |-> 200]>>
    /\ waits = <<>>
    /\ result = Response(200, 0)
    /\ options = NoOptions
    /\ cpc = "none"
    /\ stream = TRUE
    /\ cres = Pending
    /\ jsonBody = "none"

SpecParser == InitParser /\ [][ParserSteps]_vars

(***************************************************************************)
(* IGPT: the constructor and one service method call                       *)
(***************************************************************************)

DEFAULT_RETRIES == 3
DEFAULT_BACKOFF_BASE == 100
DEFAULT_BACKOFF_FACTOR == 2

\* StreamParser.js:172-174: option || default
OrDefault(opt, default) ==
    IF opt.given /\ opt.value # 0 THEN opt.value ELSE default

\* The statuses whose response has no body (response.body is null).
NullBodyStatus(status) == status \in {101, 103, 204, 205, 304}

\* What res.json() settles with: a parsed body without an error field, a
\* parsed body {error: kind} of the server, or a rejection.
JsonBodies == {"value", "auth", "params", "unparsable", "readfail"}

\* The byte sequences a response body delivers in SpecClient.
ClientStreams == { Marker \o <<"1", LF>> }

JsonValue == [kind |-> "value", status |-> 0, attempt |-> 0, error |-> "none"]
StreamValue == [kind |-> "stream", status |-> 0, attempt |-> 0, error |-> "none"]
Thrown(e) == [kind |-> "thrown", status |-> 0, attempt |-> 0, error |-> e]

\* StreamParser.js:204-216, 225-226, 248-270, HttpClient.js:17-31: a service
\* method is called; it runs through _execute into request(), up to the first
\* await of fetch().
ServiceCall(isStream) ==
    /\ cpc = "idle"
    /\ rpc = "idle"
    /\ stream' = isStream
    /\ cpc' = "executing"
    /\ EnterLoop(0)
    /\ UNCHANGED <<retries, backoffBase, backoffFactor, callerAbort, log, waits>>
    /\ UNCHANGED <<options, cres, jsonBody>>
    /\ UNCHANGED parserVars

\* A variant of StreamReturn that constructs the StreamParser on whatever
\* request() returned, an error value included.
StreamReturn_AlwaysConstructs ==
    /\ cpc = "executing"
    /\ rpc = "returned"
    /\ stream
    /\ cpc' = "returned"
    /\ cres' = StreamValue
    /\ \E src \in ClientStreams : Construct(src)
    /\ UNCHANGED <<options, stream, jsonBody>>
    /\ UNCHANGED httpVars

\* StreamParser.js:213-216, 9-11: request() has returned to a stream call: an
\* error value is returned as it is; otherwise a StreamParser is constructed
\* on the response, which throws when the response has no body.
StreamReturn ==
    /\ cpc = "executing"
    /\ rpc = "returned"
    /\ stream
    /\ IF result.kind = "error"
         THEN /\ cpc' = "returned"
              /\ cres' = result
              /\ UNCHANGED parserVars
         ELSE IF result.kind # "response" \/ NullBodyStatus(result.status)
           THEN /\ cpc' = "rejected"
                /\ cres' = Thrown("TypeError")
                /\ UNCHANGED parserVars
           ELSE /\ cpc' = "returned"
                /\ cres' = StreamValue
                /\ \E src \in ClientStreams : Construct(src)
    /\ UNCHANGED <<options, stream, jsonBody>>
    /\ UNCHANGED httpVars

\* StreamParser.js:226-234: request() has returned to a non-stream call: an
\* error value is returned as it is; otherwise res.json() is awaited.
PostJsonContinue ==
    /\ cpc = "executing"
    /\ rpc = "returned"
    /\ ~stream
    /\ IF result.kind = "error"
         THEN /\ cpc' = "returned"
              /\ cres' = result
         ELSE /\ cpc' = "parsing"
              /\ cres' = cres
    /\ UNCHANGED <<options, stream, jsonBody>>
    /\ UNCHANGED <<httpVars, parserVars>>

\* A variant of JsonSettles without the try block of lines 233-237: a
\* rejection of res.json() leaves _postJson as it is.
JsonSettles_Rethrows(b) ==
    /\ cpc = "parsing"
    /\ (result.kind # "response" \/ NullBodyStatus(result.status)) => b = "unparsable"
    /\ jsonBody' = b
    /\ cpc' = IF b \in {"unparsable", "readfail"} THEN "rejected" ELSE "returned"
    /\ cres' = CASE b = "value" -> JsonValue
                 [] b \in {"auth", "params"} -> ErrorValue(b)
                 [] OTHER -> Thrown("SyntaxError")
    /\ UNCHANGED <<options, stream>>
    /\ UNCHANGED <<httpVars, parserVars>>

\* StreamParser.js:233-237: res.json() settles.
JsonSettles(b) ==
    /\ cpc = "parsing"
    /\ (result.kind # "response" \/ NullBodyStatus(result.status)) => b = "unparsable"
    /\ jsonBody' = b
    /\ cpc' = "returned"
    /\ cres' = CASE b = "value" -> JsonValue
                 [] b \in {"auth", "params"} -> ErrorValue(b)
                 [] OTHER -> ErrorValue("invalid_json_response")
    /\ UNCHANGED <<options, stream>>
    /\ UNCHANGED <<httpVars, parserVars>>

ClientSteps ==
    \/ \E isStream \in BOOLEAN : ServiceCall(isStream)
    \/ StreamReturn
    \/ PostJsonContinue
    \/ \E b \in JsonBodies : JsonSettles(b)

OptionValues(max) == {Absent} \cup {Given(v) : v \in 0..max}

\* The options the model's clients are constructed with: any retries option
\* with the backoff options left out, or the backoff options alone.
ClientOptions ==
    {[NoOptions EXCEPT !.retries = r] : r \in OptionValues(MaxRetries)}
    \cup {[retries |-> Absent, backoffBase |-> Given(b), backoffFactor |-> Given(b)] :
            b \in {0, MaxBackoffBase}}

\* StreamParser.js:163-182: new IGPT(options), before a service method is called.
InitClient ==
    /\ options \in ClientOptions
    /\ retries = OrDefault(options.retries, DEFAULT_RETRIES)
    /\ backoffBase = OrDefault(options.backoffBase, DEFAULT_BACKOFF_BASE)
    /\ backoffFactor = OrDefault(options.backoffFactor, DEFAULT_BACKOFF_FACTOR)
    /\ NoCall
    /\ NoParser
    /\ cpc = "idle"
    /\ stream = FALSE
    /\ cres = Pending
    /\ jsonBody = "none"

NextClient ==
    \/ ClientSteps
    \/ HttpSteps
    \/ ParserSteps

SpecClient == InitClient /\ [][NextClient]_vars

(***************************************************************************)
(* Properties of HttpClient.request, checked under Spec.                   *)
(***************************************************************************)

RetryableStatusEntry(e) ==
    e.kind = "status" /\ (e.status \in 500..599 \/ e.status = 429)

AllRetryableStatuses(l) == \A i \in 1..Len(l) : RetryableStatusEntry(l[i])

\* C1: a call whose every attempt completes with a retryable status (5xx or
\* 429) has, when it returns, issued exactly retries+1 transport requests, and
\* returns the response of the last attempt, not an error value.
C1_RetryableExhaustion ==
    (rpc = "returned" /\ AllRetryableStatuses(log)) =>
        /\ fetchCount = retries + 1
        /\ Len(log) = retries + 1
        /\ result = Response(log[Len(log)].status, retries)

C1_Witness ==
    /\ rpc = "returned"
    /\ retries = 2
    /\ fetchCount = 3
    /\ AllRetryableStatuses(log)
    /\ result.kind = "response"

\* C2: when attempt 0 completes with a status that is neither 5xx nor 429,
\* that response is returned at once: one transport request, no backoff wait,
\* whatever the value of retries.
C2_NonRetryableImmediate ==
    (Len(log) >= 1 /\ log[1].kind = "status" /\ ~RetryableStatusEntry(log[1])) =>
        /\ rpc = "returned"
        /\ result = Response(log[1].status, 0)
        /\ fetchCount = 1
        /\ waits = <<>>

C2_Witness ==
    /\ retries = 2
    /\ log = <<[kind |-> "status", status |-> 404]>>
    /\ rpc = "returned"
    /\ result = Response(404, 0)

\* C3: once the caller has aborted its own signal while an attempt was in
\* flight, that attempt can only conclude by the call returning
\* {error: "request_aborted"}: no further attempt is started and no backoff
\* wait is performed, even when retries remain.
C3_CallerAbortStops ==
    (callerAbort.fired /\ callerAbort.at = "fetching" /\ rpc \notin {"fetching", "aborting"}) =>
        /\ rpc = "returned"
        /\ result = ErrorValue("request_aborted")
        /\ fetchCount = callerAbort.fetches
        /\ Len(waits) = callerAbort.waits

\* The backoff wait can only end by starting the next attempt.
AfterBackoffNextAttempt ==
    (rpc = "backoff" /\ rpc' # "backoff") =>
        /\ rpc' = "fetching"
        /\ attempt' = attempt + 1
        /\ fetchCount' = fetchCount + 1
        /\ result' = Pending

\* The step that concludes the current attempt with an outcome of this kind.
Concludes(kind) ==
    /\ Len(log') = Len(log) + 1
    /\ log'[Len(log')].kind = kind

Surfaced(e) ==
    /\ rpc' = "returned"
    /\ result' = ErrorValue(e)
    /\ waits' = waits
    /\ fetchCount' = fetchCount

Retried ==
    /\ rpc' = "backoff"
    /\ result' = Pending
    /\ Len(waits') = Len(waits) + 1
    /\ fetchCount' = fetchCount

C5_TransportFailure ==
    /\ [][Concludes("network") =>
            IF attempt = retries THEN Surfaced("network_error") ELSE Retried]_vars
    /\ [][AfterBackoffNextAttempt]_vars

C5_Witness ==
    /\ rpc = "returned"
    /\ result = ErrorValue("network_error")
    /\ Len(log) = 3
    /\ log[1].kind = "network"
    /\ fetchCount = 3

\* C6: the k-th backoff wait lasts backoffBase * backoffFactor^(k-1): the
\* first lasts backoffBase and each later one backoffFactor times the one
\* before it; attempt k is preceded by exactly k waits, attempt 0 by none.
C6_BackoffDelays ==
    /\ \A k \in 1..Len(waits) :
          waits[k] = IF k = 1 THEN backoffBase ELSE waits[k - 1] * backoffFactor
    /\ rpc \in {"fetching", "aborting"} => (Len(waits) = attempt /\ fetchCount = attempt + 1)
    /\ rpc = "backoff" => (Len(waits) = attempt + 1 /\ fetchCount = attempt + 1)

C6_Witness ==
    /\ rpc = "fetching"
    /\ attempt = 2
    /\ backoffBase = 2
    /\ backoffFactor = 2
    /\ waits = <<2, 4>>

(***************************************************************************)
(* Properties of the StreamParser, checked under SpecParser.               *)
(***************************************************************************)

\* The bytes the source has delivered so far.
Delivered == SubSeq(source, 1, pos)

\* The complete lines of a byte sequence taken as a whole: its text up to the
\* last newline, cut at the newlines.
CompleteLines(bytes) == AfterPop(Split(Decode(<<>>, bytes).text))

\* A complete line that carries a frame: trimmed, it begins with "data:" and
\* the rest, trimmed, is a JSON text.
IsFrame(raw) ==
    /\ StartsWith(Trim(raw), Marker)
    /\ ParseJSON(Trim(Slice(Trim(raw), 5))).ok

\* A complete line with the marker and a payload that is not JSON.
IsMalformed(raw) ==
    /\ StartsWith(Trim(raw), Marker)
    /\ Trim(Slice(Trim(raw), 5)) # <<>>
    /\ ~ParseJSON(Trim(Slice(Trim(raw), 5))).ok

FrameValue(raw) == Value(ParseJSON(Trim(Slice(Trim(raw), 5))).value)

\* The values of the frames among the lines ls, in order.
RECURSIVE FrameValues(_)
FrameValues(ls) ==
    IF ls = <<>> THEN <<>>
    ELSE LET rest == FrameValues(SubSeq(ls, 1, Len(ls) - 1))
             last == ls[Len(ls)]
         IN  IF IsFrame(last) THEN Append(rest, FrameValue(last)) ELSE rest

IsPrefix(a, b) == Len(a) <= Len(b) /\ SubSeq(b, 1, Len(a)) = a

Without(ls, i) == SubSeq(ls, 1, i - 1) \o SubSeq(ls, i + 1, Len(ls))

\* C8 to C10 are about an iteration that started with the reader held
\* (heldAtStart); an iteration of an instance whose reader was released is the
\* matter of C12.

\* C8: whatever the chunks the source cuts its bytes into, the values yielded
\* are those of the frames among the complete lines of the bytes delivered so
\* far, in order: all of them whenever the parser waits for the next
\* chunk, and those of the whole byte sequence when the source has ended.
C8_ChunkingIndependent ==
    /\ (heldAtStart /\ ppc = "reading") => out = FrameValues(CompleteLines(Delivered))
    /\ (heldAtStart /\ ppc = "yielded") => IsPrefix(out, FrameValues(CompleteLines(Delivered)))
    /\ (heldAtStart /\ ppc = "done" /\ ending = "eof") =>
          (pos = Len(source) /\ out = FrameValues(CompleteLines(source)))

C8_Witness ==
    /\ heldAtStart
    /\ ppc = "done"
    /\ ending = "eof"
    /\ source = Marker \o <<" ", "1", "2", LF>> \o <<" ">> \o Marker \o <<Quote, "C3", "A9", Quote, LF>>
    /\ out = << Value([json |-> "number", num |-> 12, str |-> <<>>]),
                Value([json |-> "string", num |-> 0, str |-> <<"U+00E9">>]) >>

\* C9: once a read of the source has failed, the values yielded are the frames
\* yielded before it followed by one {error: "network_error"}; from then on
\* nothing more is yielded, the iteration can only end, and no transport
\* request is issued.
C9_ReadFailureIsFinal ==
    /\ [](failedHere =>
            /\ ppc \in {"errYielded", "done"}
            /\ out = Append(FrameValues(CompleteLines(Delivered)), NetworkError)
            /\ ending \in {"no", "error", "abandoned"})
    /\ [][(failedHere /\ ppc = "errYielded") =>
            (out' = out /\ ppc' = "done" /\ ending' # "eof")]_vars
    /\ [][ppc # "none" => fetchCount' = fetchCount]_vars

C9_Witness ==
    /\ failedHere
    /\ ppc = "done"
    /\ ending = "error"
    /\ Len(out) = 3
    /\ out[1].error = "none"
    /\ out[2].error = "none"
    /\ out[3] = NetworkError

\* C10: a complete line whose payload after "data:" is not valid JSON yields
\* nothing: while no read has failed no error value is yielded, and the values
\* yielded are those of the delivered lines with that line left out, so
\* the frames after it are still yielded and the sequence does not end at it.
C10_MalformedFrameSkipped ==
    /\ (heldAtStart /\ ~failedHere) => \A i \in 1..Len(out) : out[i].error = "none"
    /\ (heldAtStart /\ (ppc = "reading" \/ (ppc = "done" /\ ending = "eof"))) =>
          LET ls == CompleteLines(Delivered)
          IN  \A i \in 1..Len(ls) :
                IsMalformed(ls[i]) =>
                    /\ out = FrameValues(Without(ls, i))
                    /\ Len(out) = Len(FrameValues(SubSeq(ls, 1, i - 1)))
                                  + Len(FrameValues(SubSeq(ls, i + 1, Len(ls))))

C10_Witness ==
    /\ heldAtStart
    /\ ppc = "done"
    /\ ending = "eof"
    /\ source = Marker \o <<"x", LF>> \o Marker \o <<"1", LF>>
    /\ out = << Value([json |-> "number", num |-> 1, str |-> <<>>]) >>

(***************************************************************************)
(* Timers and the order of attempts of HttpClient.request, under Spec.     *)
(***************************************************************************)

\* C17: at most one deadline timer is armed, and only that of the attempt
\* in flight: none is armed before the call, during a backoff wait or after
\* request() has returned, whichever way the attempt concluded.
C17_DeadlineTimerCleared ==
    /\ Cardinality(timers) <= 1
    /\ timers \subseteq {attempt}
    /\ rpc \in {"idle", "backoff", "returned"} => timers = {}

C17_Witness ==
    /\ rpc = "returned"
    /\ fetchCount = 2
    /\ Len(waits) = 1
    /\ result.kind = "response"
    /\ timers = {}

\* The transport requests issued and not yet concluded.
InFlight == fetchCount - Len(log)

\* C18: at most one transport request of the call is in flight, and only
\* while request() awaits fetch(); a transport request is started only when
\* none is in flight, and every one but the first only at the end of a backoff
\* wait, with every earlier attempt concluded and followed by a wait.
C18_AttemptsSequential ==
    /\ [](/\ InFlight \in {0, 1}
          /\ InFlight = 1 <=> rpc \in {"fetching", "aborting"})
    /\ [][fetchCount' # fetchCount =>
            /\ fetchCount' = fetchCount + 1
            /\ InFlight = 0
            /\ fetchCount > 0 =>
                  /\ rpc = "backoff"
                  /\ Len(log) = fetchCount
                  /\ Len(waits) = fetchCount
                  /\ waits' = waits]_vars

C18_Witness ==
    /\ rpc = "fetching"
    /\ attempt = 1
    /\ fetchCount = 2
    /\ Len(log) = 1
    /\ Len(waits) = 1

\* C20: when the caller aborts during a backoff wait, no transport request
\* is issued after the abort.
C20_AbortCancelsBackoff ==
    (callerAbort.fired /\ callerAbort.at = "backoff") => fetchCount = callerAbort.fetches

\* C21: no backoff wait follows the final attempt: the step that concludes
\* the attempt with index retries, whatever its outcome, returns and starts no
\* wait, and a call that has returned after m transport requests has started
\* exactly m - 1 waits (a wait follows every attempt still in progress or
\* concluded but the last).
C21_NoWaitAfterFinalAttempt ==
    /\ [](/\ (rpc = "returned" /\ fetchCount >= 1) => Len(waits) = fetchCount - 1
          /\ rpc \in {"fetching", "aborting"} => Len(waits) = fetchCount - 1
          /\ rpc = "backoff" => (Len(waits) = fetchCount /\ attempt < retries))
    /\ [][(attempt = retries /\ Len(log') > Len(log)) =>
            (rpc' = "returned" /\ waits' = waits)]_vars

C21_Witness ==
    /\ rpc = "returned"
    /\ retries = MaxRetries
    /\ attempt = retries
    /\ fetchCount = retries + 1
    /\ Len(waits) = retries
    /\ result = ErrorValue("timeout")

\* request() has been called and has not returned.
InProgress == rpc \in {"fetching", "aborting", "backoff"}

\* C22: with every attempt concluding and every backoff timer firing, a call
\* of request() in progress eventually returns, with a response or an error
\* value; it never issues more than retries + 1 transport requests.
C22_EventuallyReturns ==
    /\ [](fetchCount <= retries + 1)
    /\ InProgress ~> (/\ rpc = "returned"
                      /\ result.kind \in {"response", "error"}
                      /\ fetchCount <= retries + 1)

C22_Witness ==
    /\ rpc = "returned"
    /\ retries = MaxRetries
    /\ fetchCount = retries + 1
    /\ result.kind = "response"
    /\ IsRetryableStatus(result.status)

(***************************************************************************)
(* The lifecycle of one StreamParser, checked under SpecParser.            *)
(***************************************************************************)

\* C11: whichever way the consumer is done with a StreamParser (end of data,
\* the error value, abandoning the iteration, before the first pull included),
\* the reader acquired at construction has been released: once the iteration
\* is over the lock is no longer held and releaseLock() has run.
\* (The lock is given back at most once by construction: releaseLock() on a
\* released reader does nothing.)
C11_ReleasedExactlyOnce ==
    ppc = "done" => (~locked /\ releases >= 1)

\* C12: an iteration of an instance whose earlier iteration has finished (its
\* reader was already released when the iteration started) yields nothing,
\* neither a value nor an error value.
C12_ReiterationYieldsNothing ==
    (ppc \in {"reading", "yielded", "errYielded", "done"} /\ releases >= 1 /\ ~heldAtStart)
        => out = <<>>

\* The text after the last newline of a text: the whole text when it has none.
AfterLastNewline(text) ==
    LET nl == {i \in 1..Len(text) : text[i] = LF}
    IN  IF nl = {} THEN text
        ELSE LET last == CHOOSE i \in nl : \A j \in nl : j <= i
             IN  SubSeq(text, last + 1, Len(text))

NoNewline(text) == \A i \in 1..Len(text) : text[i] # LF

\* The statement of C19 as it stands: whenever the parser is suspended, waiting
\* for a chunk or at a yield, the buffer has no newline, it is the text after
\* the last newline received, and every frame of the lines before it has
\* been yielded.
C19_EveryEarlierLineHandled ==
    (heldAtStart /\ ppc \in {"reading", "yielded"}) =>
        /\ NoNewline(buffer)
        /\ buffer = AfterLastNewline(Decode(<<>>, Delivered).text)
        /\ out = FrameValues(CompleteLines(Delivered))

\* C19: whenever the parser is suspended, waiting for a chunk or at a yield,
\* the buffer has no newline and is the text after the last newline received
\* so far.  Waiting for a chunk, no line is left over and every frame of
\* the lines before the buffer has been yielded; at a yield, the frames
\* yielded followed by those of the lines of the chunk still to be run
\* through are the frames of the lines before the buffer.
C19_BufferHoldsPartialLine ==
    ppc \in {"reading", "yielded"} =>
        /\ NoNewline(buffer)
        /\ buffer = AfterLastNewline(Decode(<<>>, Delivered).text)
        /\ (heldAtStart /\ ppc = "reading") =>
              /\ pending = <<>>
              /\ out = FrameValues(CompleteLines(Delivered))
        /\ (heldAtStart /\ ppc = "yielded") =>
              /\ out # <<>>
              /\ out \o FrameValues(pending) = FrameValues(CompleteLines(Delivered))

C19_Witness ==
    /\ heldAtStart
    /\ ppc = "yielded"
    /\ Len(out) = 1
    /\ Len(FrameValues(pending)) = 1
    /\ NoNewline(buffer)

\* C23: at end of data the text left in the buffer is not examined: the step
\* that takes the end of data yields nothing and ends the iteration, and the
\* values yielded by an iteration that ended so are those of the frames of
\* the newline-terminated lines alone, the buffer still holding the text after
\* the last newline, a frame with a JSON payload included.
C23_TrailingTextDiscarded ==
    /\ [][(ppc = "reading" /\ ending' = "eof") =>
            (out' = out /\ buffer' = buffer /\ ppc' = "done")]_vars
    /\ []((heldAtStart /\ ppc = "done" /\ ending = "eof") =>
            /\ buffer = AfterLastNewline(Decode(<<>>, source).text)
            /\ out = FrameValues(CompleteLines(source)))

C23_Witness ==
    /\ heldAtStart
    /\ ppc = "done"
    /\ ending = "eof"
    /\ source = Marker \o <<"1", LF>> \o Marker \o <<"2">>
    /\ buffer = Marker \o <<"2">>
    /\ IsFrame(buffer)
    /\ out = << Value([json |-> "number", num |-> 1, str |-> <<>>]) >>

(***************************************************************************)
(* The no-throw contract, checked under SpecClient.                        *)
(***************************************************************************)

ErrorKinds == {"network_error", "request_aborted", "timeout", "auth", "params",
               "invalid_json_response"}

\* C7: no exception crosses the public boundary: request() returns a response
\* or an error value, a service method call never rejects, an iteration of the
\* StreamParser never ends by throwing, and every error value returned or
\* yielded is {error: kind} with kind one of the six kinds.
C7_NoThrow ==
    /\ cpc # "rejected"
    /\ cres.kind # "thrown"
    /\ rpc = "returned" => result.kind \in {"response", "error"}
    /\ result.kind = "error" => result.error \in ErrorKinds
    /\ cres.kind = "error" => cres.error \in ErrorKinds
    /\ \A i \in 1..Len(out) : out[i].error \in ErrorKinds \cup {"none"}

(***************************************************************************)
(* The service methods of the client, checked under SpecClient.            *)
(***************************************************************************)

\* C13: a service call with stream = true issues at most one transport
\* request, whatever the outcome of that request and the retries value.
C13_StreamNoRetries ==
    stream => fetchCount <= 1

ConnectionErrors == {"request_aborted", "timeout", "network_error"}

\* C14: when request() returned an error value to a stream call, the service
\* method returns that same value and no StreamParser exists; a StreamParser
\* exists only on a response that request() returned.
C14_StreamConnectionError ==
    /\ (stream /\ cpc \in {"returned", "rejected"} /\ result.kind = "error") =>
          /\ result.error \in ConnectionErrors
          /\ cres = result
          /\ cpc = "returned"
          /\ ppc = "none"
    /\ ppc # "none" =>
          /\ stream
          /\ rpc = "returned"
          /\ result.kind = "response"
          /\ cres = StreamValue

C14_Witness ==
    /\ stream
    /\ cpc = "returned"
    /\ result = ErrorValue("timeout")
    /\ cres = result
    /\ ppc = "none"

\* C15: a finished non-stream call returned the error value of request()
\* unchanged when request() returned one (the body is then never read);
\* otherwise the value parsed from the body, and {error:
\* "invalid_json_response"} exactly when res.json() rejected.  request()
\* itself returns no error value but request_aborted, timeout and
\* network_error.
C15_NonStreamResult ==
    /\ (~stream /\ cpc \in {"returned", "rejected"}) =>
          /\ cpc = "returned"
          /\ result.kind = "error" => (cres = result /\ jsonBody = "none")
          /\ result.kind = "response" =>
                /\ jsonBody \in JsonBodies
                /\ jsonBody = "value" => cres = JsonValue
                /\ jsonBody \in {"auth", "params"} => cres = ErrorValue(jsonBody)
                /\ (cres = ErrorValue("invalid_json_response"))
                      <=> (jsonBody \in {"unparsable", "readfail"})
    /\ (rpc = "returned" /\ result.kind = "error") => result.error \in ConnectionErrors

C15_Witness ==
    /\ ~stream
    /\ cpc = "returned"
    /\ result.kind = "response"
    /\ jsonBody = "unparsable"
    /\ cres = ErrorValue("invalid_json_response")

\* The log of a call whose attempts all ended retryably: a retryable status,
\* a deadline expiry or a transport failure each.
AllFailedRetryably ==
    \A i \in 1..Len(log) :
        \/ log[i].kind \in {"timeout", "network"}
        \/ log[i].kind = "status" /\ IsRetryableStatus(log[i].status)

\* C16: a client constructed with retries = n, 0 included, issues exactly
\* n + 1 transport requests for a non-stream call whose attempts all fail
\* retryably.
C16_RetriesOptionHonoured ==
    (/\ options.retries.given
     /\ ~stream
     /\ cpc = "returned"
     /\ AllFailedRetryably)
        => fetchCount = options.retries.value + 1

====
